---- MODULE Spec2Model ----
(***************************************************************************)
(* Weighted interval scheduler of src/scheduler/dpscheduler.go.            *)
(*                                                                         *)
(* time.Time values are integers (Before is <, After is >, Equal is =);    *)
(* float64 priorities are small integers, on which float64 arithmetic is   *)
(* exact.  Slice indexes keep Go's numbering (0-based, -1 for "none"); a   *)
(* Go slice s is a TLA+ sequence, so s[i] in Go is s[i + 1] here.          *)
(***************************************************************************)
EXTENDS Integers, Sequences, FiniteSets, TLC

VARIABLES
    pc,             \* "ready" before the call, "returned" after it; in the
                    \* step-wise call also "search", "walk1", "walk2"
    input,          \* ghost: the sequence the caller passed in, never changed
    tasks,          \* the caller's slice; FindBestSchedule sorts it in place
    chosenTasks,    \* 1st return value of FindBestSchedule
    totalPriority,  \* 2nd return value of FindBestSchedule
    rejectedTasks,  \* 3rd return value of FindBestSchedule
    dp,             \* the locals of FindBestSchedule: a ghost of their values
                    \* at the return, or their running values step by step
    probe           \* arguments and result of a direct call of a helper

vars == <<pc, input, tasks, chosenTasks, totalPriority, rejectedTasks, dp, probe>>

-----------------------------------------------------------------------------
(* Bounds of the explored inputs *)

MaxTime == 2
MaxWeight == 1
MaxTasks == 2

Times == 0..MaxTime
Weights == (0 - 1)..MaxWeight

Task == [StartTime : Times, EndTime : Times, Priority : Weights]

\* every sequence of at most n elements of S
SeqsUpTo(S, n) == UNION {[1..k -> S] : k \in 0..n}

\* README example (src/unnamed/part_000 lines 20-31), in units of 30 minutes
\* from 9:00: A 9:00-10:00/5, B 9:30-10:30/8, C 10:00-11:00/4, D 10:30-11:30/7.
TaskA == [StartTime |-> 0, EndTime |-> 2, Priority |-> 5]
TaskB == [StartTime |-> 1, EndTime |-> 3, Priority |-> 8]
TaskC == [StartTime |-> 2, EndTime |-> 4, Priority |-> 4]
TaskD == [StartTime |-> 3, EndTime |-> 5, Priority |-> 7]
ReadmeExample == <<TaskA, TaskB, TaskC, TaskD>>

\* Inputs of the repository's tests (src/unnamed/part_002), in hours from 9:00
\* "All same priority": 9-10, 10-11, 11-12, priority 5 each
AllSamePriority ==
    << [StartTime |-> 0, EndTime |-> 1, Priority |-> 5],
       [StartTime |-> 1, EndTime |-> 2, Priority |-> 5],
       [StartTime |-> 2, EndTime |-> 3, Priority |-> 5] >>

\* "Three tasks - two short better than one long"
TwoShortOneLong ==
    << [StartTime |-> 0, EndTime |-> 2, Priority |-> 10],
       [StartTime |-> 0, EndTime |-> 1, Priority |-> 8],
       [StartTime |-> 1, EndTime |-> 2, Priority |-> 8] >>

\* "Complex overlapping scenario"
ComplexOverlapping ==
    << [StartTime |-> 0, EndTime |-> 3, Priority |-> 15],
       [StartTime |-> 0, EndTime |-> 1, Priority |-> 6],
       [StartTime |-> 1, EndTime |-> 2, Priority |-> 6],
       [StartTime |-> 2, EndTime |-> 3, Priority |-> 6] >>

\* "Zero duration tasks": two instants at 9:00, priorities 5 and 3
ZeroDurationPair ==
    << [StartTime |-> 0, EndTime |-> 0, Priority |-> 5],
       [StartTime |-> 0, EndTime |-> 0, Priority |-> 3] >>

\* An instant at 10:00, then 9-10, then 10-11: the instant and the task ending
\* at 10:00 have the same anchor time, the sort keeps them in this order
InstantBeforeAdjacent ==
    << [StartTime |-> 1, EndTime |-> 1, Priority |-> 1],
       [StartTime |-> 0, EndTime |-> 1, Priority |-> 1],
       [StartTime |-> 1, EndTime |-> 2, Priority |-> 1] >>

\* Three instants at 9:00, the first two equal in every field, the third of
\* greater weight
EqualInstantsThenBetter ==
    << [StartTime |-> 0, EndTime |-> 0, Priority |-> 1],
       [StartTime |-> 0, EndTime |-> 0, Priority |-> 1],
       [StartTime |-> 0, EndTime |-> 0, Priority |-> 2] >>

Scenarios ==
    {ReadmeExample, AllSamePriority, TwoShortOneLong, ComplexOverlapping,
     ZeroDurationPair, InstantBeforeAdjacent, EqualInstantsThenBetter}

Inputs == SeqsUpTo(Task, MaxTasks) \cup Scenarios

-----------------------------------------------------------------------------
(* Conflict model *)

isZeroDuration(task) == ~(task.EndTime > task.StartTime)

tasksConflictOpenBoundary(task1, task2) ==
    IF isZeroDuration(task1) /\ isZeroDuration(task2)
    THEN task1.StartTime = task2.StartTime
    ELSE IF isZeroDuration(task1)
    THEN task1.StartTime > task2.StartTime /\ task1.StartTime < task2.EndTime
    ELSE IF isZeroDuration(task2)
    THEN task2.StartTime > task1.StartTime /\ task2.StartTime < task1.EndTime
    ELSE task1.StartTime < task2.EndTime /\ task2.StartTime < task1.EndTime

tasksConflict(task1, task2) ==
    IF isZeroDuration(task1) /\ isZeroDuration(task2)
    THEN task1.StartTime = task2.StartTime
    ELSE IF isZeroDuration(task1)
    THEN ~(task1.StartTime < task2.StartTime) /\ ~(task1.StartTime > task2.EndTime)
    ELSE IF isZeroDuration(task2)
    THEN ~(task2.StartTime < task1.StartTime) /\ ~(task2.StartTime > task1.EndTime)
    ELSE task1.StartTime < task2.EndTime /\ task2.StartTime < task1.EndTime

-----------------------------------------------------------------------------
(* Binary search for the best previous task *)

\* lines 68-76 with line 72 as startSearch = middleTask: the lower end of the
\* search interval is not moved past the task just examined
searchStepKeepsMiddle(ts, currentTaskIndex, sr) ==
    LET middleTask == (sr.startSearch + sr.endSearch) \div 2
    IN  IF ~tasksConflict(ts[middleTask + 1], ts[currentTaskIndex + 1])
        THEN [sr EXCEPT !.bestPreviousTask = middleTask,
                        !.startSearch = middleTask]
        ELSE [sr EXCEPT !.endSearch = middleTask - 1]

\* lines 68-76: one iteration of the search loop on the locals
\* sr = [startSearch, endSearch, bestPreviousTask]
searchStep(ts, currentTaskIndex, sr) ==
    LET middleTask == (sr.startSearch + sr.endSearch) \div 2
    IN  IF ~tasksConflict(ts[middleTask + 1], ts[currentTaskIndex + 1])
        THEN [sr EXCEPT !.bestPreviousTask = middleTask,
                        !.startSearch = middleTask + 1]
        ELSE [sr EXCEPT !.endSearch = middleTask - 1]

\* lines 67-77: the loop, from the locals sr on
RECURSIVE searchLoop(_, _, _)
searchLoop(ts, currentTaskIndex, sr) ==
    IF ~(sr.startSearch <= sr.endSearch) THEN sr.bestPreviousTask
    ELSE searchLoop(ts, currentTaskIndex, searchStep(ts, currentTaskIndex, sr))

\* lines 63-65: the locals before the first iteration
searchStart(currentTaskIndex) ==
    [startSearch |-> 0, endSearch |-> currentTaskIndex - 1,
     bestPreviousTask |-> 0 - 1]

findBestPreviousTask(ts, currentTaskIndex) ==
    searchLoop(ts, currentTaskIndex, searchStart(currentTaskIndex))

-----------------------------------------------------------------------------
(* Sort of the caller's slice (sort.Slice with the anchor-time comparison) *)

\* the time a task is sorted by: EndTime, or StartTime for a zero duration task
anchorTime(task) == IF isZeroDuration(task) THEN task.StartTime ELSE task.EndTime

\* the comparison without lines 100-105: every task compared by its EndTime
sortLessByEndTime(first, second) == first.EndTime < second.EndTime

\* the less function handed to sort.Slice
sortLess(first, second) == anchorTime(first) < anchorTime(second)

\* sort.Slice on a slice of at most 12 elements is an insertion sort: element i
\* moves down while it is less than its left neighbour.  order is the sequence
\* of input positions (0-based) in their current slice order.
RECURSIVE insertDown(_, _, _)
insertDown(ts, order, j) ==
    IF j > 0 /\ sortLess(ts[order[j + 1] + 1], ts[order[j] + 1])
    THEN insertDown(ts,
                    [order EXCEPT ![j + 1] = order[j], ![j] = order[j + 1]],
                    j - 1)
    ELSE order

RECURSIVE insertionSort(_, _, _)
insertionSort(ts, order, i) ==
    IF i < Len(ts) THEN insertionSort(ts, insertDown(ts, order, i), i + 1)
    ELSE order

\* the input position of the task at each position of the sorted slice
sortOrder(ts) == insertionSort(ts, [k \in 1..Len(ts) |-> k - 1], 1)

sortSlice(ts) == LET order == sortOrder(ts)
                 IN  [k \in 1..Len(ts) |-> ts[order[k] + 1]]

-----------------------------------------------------------------------------
(* FindBestSchedule *)

RejectionReasonLowPriority == "low_priority"
RejectionReasonConflict == "conflict"

\* CausedBy is a pointer into the caller's slice: the index it points at, or
\* NilTask for a nil pointer
NilTask == 0 - 1

\* line 141 with >= for >: on a tie the current task is taken
takesTaskOnTie(priorityIfIncluded, priorityIfExcluded) ==
    priorityIfIncluded >= priorityIfExcluded

\* line 141: is the current task taken
takesTask(priorityIfIncluded, priorityIfExcluded) ==
    priorityIfIncluded > priorityIfExcluded

\* lines 127-133: the total priority if the current task is included
includeValue(ts, best, currentTask, bestPrevious) ==
    IF bestPrevious # 0 - 1
    THEN ts[currentTask + 1].Priority + best[bestPrevious + 1]
    ELSE ts[currentTask + 1].Priority

\* lines 126-162: the body of the DP loop for position currentTask, given the
\* index bestPrevious the search returned.  st holds bestPriorityUpToTask,
\* previousTaskChosen, rejectedTasks and, as a ghost, rejectedAt: the slice
\* position each entry of rejectedTasks came from.
dpStep(ts, currentTask, bestPrevious, st) ==
    LET priorityIfIncluded ==
            includeValue(ts, st.bestPriorityUpToTask, currentTask, bestPrevious)
        priorityIfExcluded == st.bestPriorityUpToTask[currentTask]
    IN  IF takesTask(priorityIfIncluded, priorityIfExcluded)
        THEN [st EXCEPT
                !.bestPriorityUpToTask = Append(@, priorityIfIncluded),
                !.previousTaskChosen = Append(@, bestPrevious)]
        ELSE [st EXCEPT
                !.bestPriorityUpToTask = Append(@, priorityIfExcluded),
                !.previousTaskChosen = Append(@, st.previousTaskChosen[currentTask]),
                !.rejectedTasks = Append(@,
                    [TaskRejected |-> ts[currentTask + 1],
                     CausedBy |-> NilTask,
                     Reason |-> RejectionReasonLowPriority]),
                !.rejectedAt = Append(@, currentTask)]

\* lines 120-163: the DP loop from position currentTask on
RECURSIVE dpLoop(_, _, _)
dpLoop(ts, currentTask, st) ==
    IF ~(currentTask < Len(ts)) THEN st
    ELSE dpLoop(ts, currentTask + 1,
                dpStep(ts, currentTask, findBestPreviousTask(ts, currentTask), st))

\* lines 109-117: the DP arrays after the base case
dpStart(ts) ==
    [bestPriorityUpToTask |-> <<ts[1].Priority>>,
     previousTaskChosen |-> <<0 - 1>>,
     rejectedTasks |-> <<>>,
     rejectedAt |-> <<>>]

\* lines 109-163: base case followed by the loop
dpPass(ts) == dpLoop(ts, 1, dpStart(ts))

\* lines 171-177 and again 209-214: one iteration of the backward walk on
\* w = [i, chosen]; chosen is the sequence of slice positions appended to
\* chosenTasks so far
walkStep(best, prev, w) ==
    IF w.i = 0 \/ best[w.i + 1] # best[w.i]
    THEN [i |-> prev[w.i + 1], chosen |-> Append(w.chosen, w.i)]
    ELSE [i |-> w.i - 1, chosen |-> w.chosen]

\* lines 170-178 and again 208-215: the backward walk from w on
RECURSIVE walkLoop(_, _, _)
walkLoop(best, prev, w) ==
    IF ~(w.i >= 0) THEN w.chosen
    ELSE walkLoop(best, prev, walkStep(best, prev, w))

walkBack(best, prev, i, chosen) == walkLoop(best, prev, [i |-> i, chosen |-> chosen])

\* lines 185-190: is a task of equal value already in rejectedTasks
alreadyRejected(rejected, task) ==
    \E k \in 1..Len(rejected) : rejected[k].TaskRejected = task

\* lines 194-204: the first chosen position whose task conflicts with ts[i],
\* or NilTask when the scan finds none
RECURSIVE findConflicting(_, _, _, _)
findConflicting(ts, chosenIndexes, i, j) ==
    IF ~(j < Len(ts)) THEN NilTask
    ELSE IF j \in chosenIndexes /\ tasksConflict(ts[i + 1], ts[j + 1]) THEN j
         ELSE findConflicting(ts, chosenIndexes, i, j + 1)

\* lines 181-207: the conflict rejections, from position i on
RECURSIVE conflictLoop(_, _, _, _)
conflictLoop(ts, chosenIndexes, i, st) ==
    IF ~(i < Len(ts)) THEN st
    ELSE IF i \notin chosenIndexes /\ ~alreadyRejected(st.rejectedTasks, ts[i + 1])
         THEN LET j == findConflicting(ts, chosenIndexes, i, 0)
              IN  IF j # NilTask
                  THEN conflictLoop(ts, chosenIndexes, i + 1,
                         [st EXCEPT
                            !.rejectedTasks = Append(@,
                                [TaskRejected |-> ts[i + 1],
                                 CausedBy |-> j,
                                 Reason |-> RejectionReasonConflict]),
                            !.rejectedAt = Append(@, i)])
                  ELSE conflictLoop(ts, chosenIndexes, i + 1, st)
         ELSE conflictLoop(ts, chosenIndexes, i + 1, st)

\* lines 218-220: the in-place reversal of chosenTasks
reverseSeq(s) == [k \in 1..Len(s) |-> s[Len(s) - k + 1]]

\* What FindBestSchedule returns (chosenTasks, totalPriority, rejectedTasks),
\* what it leaves in the caller's slice (tasks), and ghosts of its locals:
\* order (input position of each slice position), the DP arrays,
\* chosenIndexes, chosenAt / rejectedAt (slice position of each returned entry).
\* panicked: the call ended in a Go run-time panic (index out of range).

\* lines 91-93: return nil, 0, nil
emptySchedule(ts) ==
    [chosenTasks |-> <<>>, totalPriority |-> 0, rejectedTasks |-> <<>>,
     tasks |-> ts, panicked |-> FALSE, order |-> <<>>,
     bestPriorityUpToTask |-> <<>>, previousTaskChosen |-> <<>>,
     chosenIndexes |-> {}, chosenAt |-> <<>>, rejectedAt |-> <<>>]

\* lines 96-223, for a slice of at least one task
scheduleTasks(ts) ==
    LET sorted == sortSlice(ts)
        numTasks == Len(sorted)
        filled == dpPass(sorted)
        best == filled.bestPriorityUpToTask
        prev == filled.previousTaskChosen
        firstWalk == walkBack(best, prev, numTasks - 1, <<>>)
        chosenIndexes == {firstWalk[k] : k \in 1..Len(firstWalk)}
        classified == conflictLoop(sorted, chosenIndexes, 0,
                          [rejectedTasks |-> filled.rejectedTasks,
                           rejectedAt |-> filled.rejectedAt])
        secondWalk == walkBack(best, prev, numTasks - 1, firstWalk)
        chosenAt == reverseSeq(secondWalk)
    IN  [chosenTasks |-> [k \in 1..Len(chosenAt) |-> sorted[chosenAt[k] + 1]],
         totalPriority |-> best[numTasks],
         rejectedTasks |-> classified.rejectedTasks,
         tasks |-> sorted, panicked |-> FALSE, order |-> sortOrder(ts),
         bestPriorityUpToTask |-> best, previousTaskChosen |-> prev,
         chosenIndexes |-> chosenIndexes, chosenAt |-> chosenAt,
         rejectedAt |-> classified.rejectedAt]

\* FindBestSchedule without the length check of lines 91-93: on an empty slice
\* line 116 reads tasks[0] and the call panics
FindBestScheduleNoEmptyCheck(ts) ==
    IF Len(ts) = 0
    THEN [emptySchedule(ts) EXCEPT !.panicked = TRUE]
    ELSE scheduleTasks(ts)

FindBestSchedule(ts) ==
    IF Len(ts) = 0 THEN emptySchedule(ts) ELSE scheduleTasks(ts)

-----------------------------------------------------------------------------
(* The scheduling call: the caller hands a task slice to FindBestSchedule *)

NoProbe == [op |-> "none"]
NoLocals == [called |-> FALSE]

Init ==
    /\ pc = "ready"
    /\ input \in Inputs
    /\ tasks = input
    /\ chosenTasks = <<>>
    /\ totalPriority = 0
    /\ rejectedTasks = <<>>
    /\ dp = NoLocals
    /\ probe = NoProbe

Schedule ==
    /\ pc = "ready"
    /\ \E r \in {FindBestSchedule(tasks)} :
           /\ tasks' = r.tasks
           /\ chosenTasks' = r.chosenTasks
           /\ totalPriority' = r.totalPriority
           /\ rejectedTasks' = r.rejectedTasks
           /\ dp' = [called |-> TRUE, panicked |-> r.panicked, order |-> r.order,
                     bestPriorityUpToTask |-> r.bestPriorityUpToTask,
                     previousTaskChosen |-> r.previousTaskChosen,
                     chosenIndexes |-> r.chosenIndexes,
                     chosenAt |-> r.chosenAt, rejectedAt |-> r.rejectedAt]
    /\ pc' = "returned"
    /\ UNCHANGED <<input, probe>>

Next == Schedule

Spec == Init /\ [][Next]_vars

-----------------------------------------------------------------------------
(* Direct calls of tasksConflict on every pair of tasks *)

InitConflict ==
    /\ pc = "ready"
    /\ input = <<>>
    /\ tasks = <<>>
    /\ chosenTasks = <<>>
    /\ totalPriority = 0
    /\ rejectedTasks = <<>>
    /\ dp = NoLocals
    /\ probe \in [op : {"tasksConflict"}, task1 : Task, task2 : Task]

CallTasksConflict ==
    /\ pc = "ready"
    /\ probe.op = "tasksConflict"
    /\ probe' = [op |-> "tasksConflict",
                 task1 |-> probe.task1, task2 |-> probe.task2,
                 result |-> tasksConflict(probe.task1, probe.task2),
                 swapped |-> tasksConflict(probe.task2, probe.task1)]
    /\ pc' = "returned"
    /\ UNCHANGED <<input, tasks, chosenTasks, totalPriority, rejectedTasks, dp>>

NextConflict == CallTasksConflict

SpecConflict == InitConflict /\ [][NextConflict]_vars

-----------------------------------------------------------------------------
(* Direct calls of findBestPreviousTask on every sorted slice and position *)

\* non-decreasing by anchor time, equal anchors in any order
IsSortedByAnchor(ts) ==
    \A k \in 1..(Len(ts) - 1) : anchorTime(ts[k]) <= anchorTime(ts[k + 1])

\* the bounded slices that are sorted, and the scenarios as the sort leaves them
SortedSlices ==
    {ts \in SeqsUpTo(Task, MaxTasks) \cup {sortSlice(sc) : sc \in Scenarios} :
        Len(ts) >= 1 /\ IsSortedByAnchor(ts)}

InitSearch ==
    /\ pc = "ready"
    /\ input = <<>>
    /\ tasks \in SortedSlices
    /\ chosenTasks = <<>>
    /\ totalPriority = 0
    /\ rejectedTasks = <<>>
    /\ dp = NoLocals
    /\ probe \in [op : {"findBestPreviousTask"}, currentTaskIndex : 0..(Len(tasks) - 1)]

CallFindBestPreviousTask ==
    /\ pc = "ready"
    /\ probe.op = "findBestPreviousTask"
    /\ probe' = [op |-> "findBestPreviousTask",
                 currentTaskIndex |-> probe.currentTaskIndex,
                 result |-> findBestPreviousTask(tasks, probe.currentTaskIndex)]
    /\ pc' = "returned"
    /\ UNCHANGED <<input, tasks, chosenTasks, totalPriority, rejectedTasks, dp>>

NextSearch == CallFindBestPreviousTask

SpecSearch == InitSearch /\ [][NextSearch]_vars

-----------------------------------------------------------------------------
(* The scheduling call, one loop iteration at a time.  pc is the position in
   FindBestSchedule, dp holds its locals: currentTask, the locals sr of the
   running findBestPreviousTask, the DP arrays and rejections st, the locals
   w = [i, chosen] of the running backward walk, and chosenIndexes. *)

\* The loops run on the slice as the sort leaves it.  The sort is stable, so
\* the slices it can leave are exactly the sorted ones, and each of those is
\* left by the sort of itself: the inputs are the empty slice, the sorted
\* slices and the scenarios in their original order.
StepInputs == {<<>>} \cup SortedSlices \cup Scenarios

InitSteps ==
    /\ pc = "ready"
    /\ input \in StepInputs
    /\ tasks = input
    /\ chosenTasks = <<>>
    /\ totalPriority = 0
    /\ rejectedTasks = <<>>
    /\ dp = NoLocals
    /\ probe = NoProbe

\* lines 91-93: the empty slice returns at once
ReturnEmpty ==
    /\ pc = "ready"
    /\ Len(tasks) = 0
    /\ pc' = "returned"
    /\ dp' = [called |-> TRUE]
    /\ UNCHANGED <<input, tasks, chosenTasks, totalPriority, rejectedTasks, probe>>

\* line 120, the loop test before the iteration for locals.currentTask of a
\* slice of numTasks tasks: either findBestPreviousTask is entered (lines 124,
\* 63-65) or the loop is left and the first walk starts (lines 166-170)
loopTest(numTasks, locals) ==
    IF locals.currentTask < numTasks
    THEN [position |-> "search",
          locals |-> [locals EXCEPT !.sr = searchStart(locals.currentTask)]]
    ELSE [position |-> "walk1",
          locals |-> [locals EXCEPT !.w = [i |-> numTasks - 1, chosen |-> <<>>]]]

\* lines 96-117: sort, allocation of the arrays, base case; then the first
\* loop test
SortAndBase ==
    /\ pc = "ready"
    /\ Len(tasks) > 0
    /\ tasks' = sortSlice(tasks)
    /\ \E entered \in {loopTest(Len(tasks),
                           [called |-> TRUE,
                            currentTask |-> 1,
                            sr |-> searchStart(0),
                            st |-> dpStart(tasks'),
                            w |-> [i |-> 0 - 1, chosen |-> <<>>],
                            chosenIndexes |-> {}])} :
           /\ dp' = entered.locals
           /\ pc' = entered.position
    /\ UNCHANGED <<input, chosenTasks, totalPriority, rejectedTasks, probe>>

\* lines 67-77: one iteration of the binary search
SearchIteration ==
    /\ pc = "search"
    /\ dp.sr.startSearch <= dp.sr.endSearch
    /\ dp' = [dp EXCEPT !.sr = searchStep(tasks, dp.currentTask, dp.sr)]
    /\ UNCHANGED <<pc, input, tasks, chosenTasks, totalPriority, rejectedTasks, probe>>

\* line 79 (the search returns) and lines 126-162, then currentTask++ and the
\* next loop test
DecideTask ==
    /\ pc = "search"
    /\ ~(dp.sr.startSearch <= dp.sr.endSearch)
    /\ \E entered \in {loopTest(Len(tasks),
                           [dp EXCEPT
                              !.st = dpStep(tasks, dp.currentTask,
                                            dp.sr.bestPreviousTask, dp.st),
                              !.currentTask = dp.currentTask + 1])} :
           /\ dp' = entered.locals
           /\ pc' = entered.position
    /\ UNCHANGED <<input, tasks, chosenTasks, totalPriority, rejectedTasks, probe>>

\* lines 170-178: one iteration of the first backward walk
FirstWalkIteration ==
    /\ pc = "walk1"
    /\ dp.w.i >= 0
    /\ dp' = [dp EXCEPT !.w = walkStep(dp.st.bestPriorityUpToTask,
                                       dp.st.previousTaskChosen, dp.w)]
    /\ UNCHANGED <<pc, input, tasks, chosenTasks, totalPriority, rejectedTasks, probe>>

\* lines 181-207 (the conflict rejections, loops over fixed ranges) and line
\* 208: the second walk starts, appending to the same chosenTasks
ClassifyAndEnterSecondWalk ==
    /\ pc = "walk1"
    /\ ~(dp.w.i >= 0)
    /\ \E chosen \in {{dp.w.chosen[k] : k \in 1..Len(dp.w.chosen)}} :
        \E classified \in {conflictLoop(tasks, chosen, 0,
                               [rejectedTasks |-> dp.st.rejectedTasks,
                                rejectedAt |-> dp.st.rejectedAt])} :
           dp' = [dp EXCEPT
                    !.chosenIndexes = chosen,
                    !.st.rejectedTasks = classified.rejectedTasks,
                    !.st.rejectedAt = classified.rejectedAt,
                    !.w = [i |-> Len(tasks) - 1, chosen |-> dp.w.chosen]]
    /\ pc' = "walk2"
    /\ UNCHANGED <<input, tasks, chosenTasks, totalPriority, rejectedTasks, probe>>

\* lines 208-215: one iteration of the second backward walk
SecondWalkIteration ==
    /\ pc = "walk2"
    /\ dp.w.i >= 0
    /\ dp' = [dp EXCEPT !.w = walkStep(dp.st.bestPriorityUpToTask,
                                       dp.st.previousTaskChosen, dp.w)]
    /\ UNCHANGED <<pc, input, tasks, chosenTasks, totalPriority, rejectedTasks, probe>>

\* lines 218-223: reversal and return
ReverseAndReturn ==
    /\ pc = "walk2"
    /\ ~(dp.w.i >= 0)
    /\ \E chosenAt \in {reverseSeq(dp.w.chosen)} :
           chosenTasks' = [k \in 1..Len(chosenAt) |-> tasks[chosenAt[k] + 1]]
    /\ totalPriority' = dp.st.bestPriorityUpToTask[Len(tasks)]
    /\ rejectedTasks' = dp.st.rejectedTasks
    /\ pc' = "returned"
    /\ UNCHANGED <<input, tasks, dp, probe>>

NextSteps ==
    \/ ReturnEmpty
    \/ SortAndBase
    \/ SearchIteration
    \/ DecideTask
    \/ FirstWalkIteration
    \/ ClassifyAndEnterSecondWalk
    \/ SecondWalkIteration
    \/ ReverseAndReturn

\* The call runs on one goroutine from entry to return, with no blocking
\* operation and no yield: a step that can be taken is taken.
SpecSteps == InitSteps /\ [][NextSteps]_vars /\ WF_vars(NextSteps)

-----------------------------------------------------------------------------
(* Vocabulary of the properties *)

Returned == pc = "returned"

\* the three-case definition of a conflict, for an unordered pair of tasks
ZeroDuration(t) == t.EndTime <= t.StartTime

ConflictDefinition(a, b) ==
    IF ZeroDuration(a) /\ ZeroDuration(b)
    THEN a.StartTime = b.StartTime
    ELSE IF ZeroDuration(a) \/ ZeroDuration(b)
    THEN LET instant == IF ZeroDuration(a) THEN a.StartTime ELSE b.StartTime
             normal == IF ZeroDuration(a) THEN b ELSE a
         IN  normal.StartTime <= instant /\ instant <= normal.EndTime
    ELSE a.StartTime < b.EndTime /\ b.StartTime < a.EndTime

\* the index a linear scan over positions 0..i-1 returns: the greatest j < i
\* whose task does not conflict with the task at i, or -1
LinearScan(ts, i) ==
    LET compatible == {j \in 0..(i - 1) : ~tasksConflict(ts[j + 1], ts[i + 1])}
    IN  IF compatible = {} THEN 0 - 1
        ELSE CHOOSE j \in compatible : \A k \in compatible : k <= j

RECURSIVE SumPriority(_, _)
SumPriority(ts, S) ==
    IF S = {} THEN 0
    ELSE LET p == CHOOSE x \in S : TRUE
         IN  ts[p].Priority + SumPriority(ts, S \ {p})

\* S: a set of positions of ts whose tasks are pairwise non-conflicting
PairwiseCompatible(ts, S) ==
    \A p \in S : \A q \in S : p # q => ~tasksConflict(ts[p], ts[q])

\* the greatest total weight of a set of pairwise non-conflicting tasks of ts
MaxCompatibleWeight(ts) ==
    LET sums == {SumPriority(ts, S) :
                    S \in {X \in SUBSET (1..Len(ts)) : PairwiseCompatible(ts, X)}}
    IN  CHOOSE m \in sums : \A w \in sums : w <= m

\* how often the task at input position p (0-based) occurs in the returned
\* chosenTasks, and how often in the returned rejectedTasks
ChosenOccurrences(p) ==
    Cardinality({k \in 1..Len(dp.chosenAt) : dp.order[dp.chosenAt[k] + 1] = p})

RejectedOccurrences(p) ==
    Cardinality({k \in 1..Len(dp.rejectedAt) : dp.order[dp.rejectedAt[k] + 1] = p})

-----------------------------------------------------------------------------
(* Properties *)

\* C1 (optimality): the total weight FindBestSchedule returns is the maximum,
\* over all sets of pairwise non-conflicting input tasks (the empty set
\* included), of the sum of the set's weights.
C1_Optimality == Returned => totalPriority = MaxCompatibleWeight(input)

\* C2 (non-overlap): no two entries at different positions of the returned
\* selected sequence conflict.
C2_NonOverlap ==
    Returned =>
        \A p \in 1..Len(chosenTasks) : \A q \in 1..Len(chosenTasks) :
            p # q => ~tasksConflict(chosenTasks[p], chosenTasks[q])

\* C3 (conservation): every input task, identified by its input position,
\* occurs exactly once in the selected sequence followed by the rejected one.
C3_Conservation ==
    Returned =>
        \A p \in 0..(Len(input) - 1) :
            ChosenOccurrences(p) + RejectedOccurrences(p) = 1

\* C4 (chronological order): the returned selected sequence is non-decreasing
\* by anchor time from its first entry to its last.
C4_Chronological ==
    Returned =>
        \A k \in 1..(Len(chosenTasks) - 1) :
            anchorTime(chosenTasks[k]) <= anchorTime(chosenTasks[k + 1])

\* C5 (binary search): on a slice sorted by anchor time, findBestPreviousTask
\* returns the index a linear scan returns: the greatest non-conflicting index
\* below the current one, or -1.
C5_SearchIsLinearScan ==
    (Returned /\ probe.op = "findBestPreviousTask") =>
        probe.result = LinearScan(tasks, probe.currentTaskIndex)

\* C6 (conflict definition): tasksConflict agrees with the three-case
\* definition of a conflict, in both argument orders.
C6_ConflictDefinition ==
    (Returned /\ probe.op = "tasksConflict") =>
        /\ probe.result = ConflictDefinition(probe.task1, probe.task2)
        /\ probe.swapped = ConflictDefinition(probe.task1, probe.task2)

\* a zero duration task at the end instant of a normal task was compared with
\* it and found to conflict
C6_Witness ==
    /\ Returned /\ probe.op = "tasksConflict"
    /\ ZeroDuration(probe.task1) /\ ~ZeroDuration(probe.task2)
    /\ probe.task1.StartTime = probe.task2.EndTime
    /\ probe.result /\ probe.swapped

\* C7 (empty input): on an empty slice FindBestSchedule returns no selected
\* task, total weight 0 and no rejected task, and does not panic.
C7_EmptyInput ==
    (Returned /\ probe.op = "none" /\ Len(input) = 0) =>
        /\ chosenTasks = <<>>
        /\ totalPriority = 0
        /\ rejectedTasks = <<>>
        /\ ~dp.panicked

\* FindBestSchedule has returned from a call on the empty slice
C7_Witness == Returned /\ dp.called /\ input = <<>> /\ tasks = <<>>

\* C8 (one task): a single task is returned as the only selected entry, the
\* total weight is its weight and nothing is rejected.
C8_SingleTask ==
    (Returned /\ Len(input) = 1) =>
        /\ chosenTasks = <<input[1]>>
        /\ totalPriority = input[1].Priority
        /\ rejectedTasks = <<>>

\* C9 (all compatible): when no two input tasks conflict and every weight is
\* positive, every input task is selected exactly once, the total weight is
\* the sum of all weights and nothing is rejected.
C9_AllCompatible ==
    (/\ Returned
     /\ PairwiseCompatible(input, 1..Len(input))
     /\ \A p \in 1..Len(input) : input[p].Priority > 0) =>
        /\ Len(chosenTasks) = Len(input)
        /\ \A p \in 0..(Len(input) - 1) : ChosenOccurrences(p) = 1
        /\ totalPriority = SumPriority(input, 1..Len(input))
        /\ rejectedTasks = <<>>

\* C10 (README example): for A, B, C, D in that order the selected sequence is
\* [B, D], the total weight 15, and the rejected tasks are A (conflict with B,
\* or low priority) and C (low priority).
C10_ReadmeExample ==
    (Returned /\ input = ReadmeExample) =>
        /\ chosenTasks = <<TaskB, TaskD>>
        /\ totalPriority = 15
        /\ Len(rejectedTasks) = 2
        /\ \E k \in 1..Len(rejectedTasks) :
              /\ rejectedTasks[k].TaskRejected = TaskA
              /\ \/ rejectedTasks[k].Reason = RejectionReasonLowPriority
                 \/ /\ rejectedTasks[k].Reason = RejectionReasonConflict
                    /\ tasks[rejectedTasks[k].CausedBy + 1] = TaskB
        /\ \E k \in 1..Len(rejectedTasks) :
              /\ rejectedTasks[k].TaskRejected = TaskC
              /\ rejectedTasks[k].Reason = RejectionReasonLowPriority

\* C11 (two instants): for two zero duration tasks at the same instant, of
\* weight 5 then 3, the selected sequence is the weight-5 task alone, the total
\* weight is 5, and the weight-3 task alone is rejected, tagged as a conflict.
C11_ZeroDurationPair ==
    (Returned /\ input = ZeroDurationPair) =>
        /\ chosenTasks = <<ZeroDurationPair[1]>>
        /\ totalPriority = 5
        /\ Len(rejectedTasks) = 1
        /\ rejectedTasks[1].TaskRejected = ZeroDurationPair[2]
        /\ rejectedTasks[1].Reason = RejectionReasonConflict

\* the slice positions 1..n-1 of the returned call at which the include value
\* equals the exclude value
TiePositions ==
    {i \in 1..(Len(tasks) - 1) :
        includeValue(tasks, dp.bestPriorityUpToTask, i, findBestPreviousTask(tasks, i))
            = dp.bestPriorityUpToTask[i]}

\* the task at slice position i has a rejection entry with the given reason
RejectedFor(i, reason) ==
    \E k \in 1..Len(rejectedTasks) :
        dp.rejectedAt[k] = i /\ rejectedTasks[k].Reason = reason

\* the slice positions of the entries of the returned selected sequence
SelectedPositions == {dp.chosenAt[k] : k \in 1..Len(dp.chosenAt)}

\* C12 (tie-break): at every sorted position i >= 1 where the include value
\* equals the exclude value, the task is excluded: bestPriorityUpToTask[i] is
\* bestPriorityUpToTask[i-1], the task is tagged low priority and it is not in
\* the selected sequence.
C12_TieExcludes ==
    (Returned /\ dp.called) =>
        \A i \in TiePositions :
            /\ dp.bestPriorityUpToTask[i + 1] = dp.bestPriorityUpToTask[i]
            /\ RejectedFor(i, RejectionReasonLowPriority)
            /\ i \notin SelectedPositions

\* a call has returned in which some position had equal include and exclude
\* values, with a task of positive weight
C12_Witness ==
    /\ Returned /\ dp.called
    /\ \E i \in TiePositions : tasks[i + 1].Priority > 0

\* C13 (prefix property): in the slice as the sort leaves it, for every
\* position i and all j < k < i, if the task at j conflicts with the task at i
\* then so does the task at k.
C13_PrefixProperty ==
    (Returned /\ dp.called) =>
        \A i \in 0..(Len(tasks) - 1) : \A k \in 0..(i - 1) : \A j \in 0..(k - 1) :
            tasksConflict(tasks[j + 1], tasks[i + 1])
                => tasksConflict(tasks[k + 1], tasks[i + 1])

\* every sequence holding the tasks of ts in some order
Reorderings(ts) ==
    {[k \in 1..Len(ts) |-> ts[f[k]]] : f \in Permutations(1..Len(ts))}

\* C14 (order independence): the total weight FindBestSchedule returns is the
\* same for every input order of the same tasks.
C14_OrderIndependent ==
    (Returned /\ dp.called) =>
        \A other \in Reorderings(input) :
            FindBestSchedule(other).totalPriority = totalPriority

\* the task at slice position i has a conflict rejection entry that refers to
\* a selected task it conflicts with
RejectedForConflict(i) ==
    \E k \in 1..Len(rejectedTasks) :
        /\ dp.rejectedAt[k] = i
        /\ rejectedTasks[k].Reason = RejectionReasonConflict
        /\ rejectedTasks[k].CausedBy \in SelectedPositions
        /\ tasksConflict(tasks[i + 1], tasks[rejectedTasks[k].CausedBy + 1])

\* C15 (rejection classification): every task at a position that is not
\* selected and was not tagged low priority in the DP pass is rejected as a
\* conflict, with a reference to a selected task it conflicts with; no
\* unselected task is left without a rejection entry.
C15_Classification ==
    (Returned /\ dp.called) =>
        \A i \in (0..(Len(tasks) - 1)) \ SelectedPositions :
            /\ ~RejectedFor(i, RejectionReasonLowPriority) => RejectedForConflict(i)
            /\ \E k \in 1..Len(dp.rejectedAt) : dp.rejectedAt[k] = i

\* how many positions of ts hold a task equal to t in start, end and weight
Count(ts, t) == Cardinality({k \in 1..Len(ts) : ts[k] = t})

\* ts and us hold the same tasks, each as often
SameTasks(ts, us) ==
    /\ Len(ts) = Len(us)
    /\ \A k \in 1..Len(ts) : Count(ts, ts[k]) = Count(us, ts[k])

\* C16 (caller's slice): after a call on a non-empty slice the caller's slice
\* holds the tasks passed in, each unchanged and as often, in non-decreasing
\* order of anchor time.
C16_CallerSlice ==
    (Returned /\ dp.called /\ Len(input) > 0) =>
        /\ SameTasks(tasks, input)
        /\ IsSortedByAnchor(tasks)

\* a call has returned that moved a task of the caller's slice
C16_Witness ==
    /\ Returned /\ dp.called
    /\ Len(input) > 0
    /\ tasks # input

\* C17 (total matches selection): the total weight returned equals the sum of
\* the weights of the entries of the selected sequence returned, 0 when that
\* sequence is empty.
C17_TotalMatchesSelection ==
    Returned => totalPriority = SumPriority(chosenTasks, 1..Len(chosenTasks))

\* the step-wise call returns what FindBestSchedule returns
StepsAgreeWithCall ==
    (Returned /\ dp.called) =>
        \E r \in {FindBestSchedule(input)} :
            /\ tasks = r.tasks
            /\ chosenTasks = r.chosenTasks
            /\ totalPriority = r.totalPriority
            /\ rejectedTasks = r.rejectedTasks

\* an iteration of the binary search (a step inside one call of
\* findBestPreviousTask) leaves a strictly narrower interval inside the old one
SearchNarrows ==
    (pc = "search" /\ pc' = "search" /\ dp'.currentTask = dp.currentTask) =>
        /\ dp'.sr.startSearch >= dp.sr.startSearch
        /\ dp'.sr.endSearch <= dp.sr.endSearch
        /\ dp'.sr.endSearch - dp'.sr.startSearch
               < dp.sr.endSearch - dp.sr.startSearch

\* an iteration of a backward walk leaves a strictly smaller index, -1 at least
WalkDescends ==
    ((pc = "walk1" /\ pc' = "walk1") \/ (pc = "walk2" /\ pc' = "walk2")) =>
        /\ dp'.w.i < dp.w.i
        /\ dp'.w.i >= 0 - 1

\* every filled entry of previousTaskChosen points below its own position
PreviousIsEarlier ==
    (pc \in {"search", "walk1", "walk2"}) =>
        \A i \in 0..(Len(dp.st.previousTaskChosen) - 1) :
            /\ dp.st.previousTaskChosen[i + 1] < i
            /\ dp.st.previousTaskChosen[i + 1] >= 0 - 1

\* C18 (termination): every call of FindBestSchedule returns; each iteration
\* of a binary search narrows [startSearch, endSearch], each iteration of a
\* backward walk strictly decreases the index, and previousTaskChosen[i] < i
\* at every position.
C18_Termination ==
    /\ [][SearchNarrows /\ WalkDescends]_vars
    /\ [](PreviousIsEarlier)
    /\ <>Returned

\* a call on three tasks or more has returned after a search that moved both
\* ends of its interval and walks that followed previousTaskChosen twice
C18_Witness ==
    /\ Returned /\ dp.called
    /\ Len(tasks) >= 3
    /\ dp.sr.startSearch > 0
    /\ dp.sr.endSearch < Len(tasks) - 2
    /\ Cardinality(dp.chosenIndexes) >= 2

====
